---- MODULE Spec2Model ----
(***************************************************************************)
(* A model of the interactive shell of src/src/main.rs: the line editor    *)
(* (read_line), the continuation parser (parse_line), the variable         *)
(* expander (expand_environment_variables), the dispatcher (execute and    *)
(* the builtins) and the REPL loop of main.                                *)
(*                                                                         *)
(* Strings are sequences of one-character strings; offsets into a string   *)
(* are 0-based as in the source, so the character at offset i of s is      *)
(* s[i + 1].  Terminal rendering (escape sequences written to stdout), the *)
(* timestamp of a history record and the JSON file behind the history      *)
(* vector are not modelled.  A Rust panic ends the process: the model      *)
(* moves to pc = "panicked" and records the kind of panic.                 *)
(***************************************************************************)
EXTENDS Integers, Sequences, FiniteSets, TLC

(* ------------------------------ bounds -------------------------------- *)

\* Keys the user may press during one read_line call in SpecKeys.
MaxKeys == 4

\* Scripts the user may type during one run of the shell in Spec.
MaxTyped == 3

(* ------------------------- characters and keys ------------------------ *)

\* Key::Char('\n'), the Enter key.
Enter == "\n"

\* Keys that are not characters.
SpecialKeys == {"Backspace", "Up", "Down", "Left", "Right", "Other"}

\* The characters the user presses one at a time in SpecKeys.
EditChars == {"a", "$", "\\", " "}

\* char::is_whitespace on the characters of the model.
IsWhitespace(c) == c \in {" ", "\n", "\t"}

\* The initial value of escape_position; it stands for usize::MAX, an
\* offset past the end of every buffer.
USIZE_MAX == 2147483647

(* --------------------------- string helpers --------------------------- *)

RECURSIVE trim_start(_)
\* str::trim_start
trim_start(s) ==
    IF s # <<>> /\ IsWhitespace(Head(s)) THEN trim_start(Tail(s)) ELSE s

RECURSIVE trim_end(_)
\* str::trim_end
trim_end(s) ==
    IF s # <<>> /\ IsWhitespace(s[Len(s)])
    THEN trim_end(SubSeq(s, 1, Len(s) - 1))
    ELSE s

\* str::trim
trim(s) == trim_end(trim_start(s))

\* String::remove(idx) for idx < len
remove(s, idx) == SubSeq(s, 1, idx) \o SubSeq(s, idx + 2, Len(s))

\* String::insert(idx, c) for idx <= len
insert(s, idx, c) == SubSeq(s, 1, idx) \o <<c>> \o SubSeq(s, idx + 1, Len(s))

\* String::replace_range(from..to, with)
replace_range(s, from, to, with) ==
    SubSeq(s, 1, from) \o with \o SubSeq(s, to + 1, Len(s))

\* The characters of a string, as a set.
Chars(s) == {s[i] : i \in 1..Len(s)}

(* ------------------------------- state -------------------------------- *)

VARIABLES
    pc,                   \* "prompt", "read_line", "returned", "execute",
                          \* "exited" or "panicked"
    panic,                \* kind of the panic that ended the process
    pending,              \* key events on stdin not yet read
    input,                \* read_line: the buffer
    input_current_index,  \* read_line: the cursor
    substitutions_index,  \* read_line: offsets recorded for typed `$`
    should_escape,        \* read_line: a backslash was typed
    escape_position,      \* read_line: offset recorded for the backslash
    history_vector,       \* config.history_vector
    history_position,     \* config.history_position
    entry_command,        \* main: entry.command
    entry_cwd,            \* main: entry.cwd
    tokens,               \* main: tokens
    line_status,          \* main: line_status
    line,                 \* main: line, as returned by read_line
    env,                  \* the environment variables of the process
    cwd,                  \* the working directory of the process
    typed,                \* number of keys pressed (SpecKeys) or of
                          \* scripts typed (Spec) so far
    live                  \* <<text>>: the buffer typed before browsing
                          \* began; <<>> while not browsing

editorVars == <<input, input_current_index, substitutions_index,
                should_escape, escape_position>>
configVars == <<history_vector, history_position>>
mainVars   == <<entry_command, entry_cwd, tokens, line_status, line>>
procVars   == <<env, cwd>>

vars == <<pc, panic, pending, input, input_current_index,
          substitutions_index, should_escape, escape_position,
          history_vector, history_position, entry_command, entry_cwd,
          tokens, line_status, line, env, cwd, typed, live>>

(* ------------------------- history records ---------------------------- *)

\* Option<i32>: None is <<>>, Some(c) is <<c>>.
None == <<>>
Some(c) == <<c>>

\* struct HistoryEntry (the time field is not modelled)
HistoryEntry(command, exit_code, dir) ==
    [command |-> command, exit_code |-> exit_code, cwd |-> dir]

\* History vectors init() may load from the history file in SpecKeys.
InitHistories ==
    { <<>>,
      << HistoryEntry(<<"a", "a">>, Some(0), <<"/">>) >>,
      << HistoryEntry(<<"a", "a">>, Some(0), <<"/">>),
         HistoryEntry(<<"$", "a">>, None, <<"/">>) >> }

(* ----------------------------- read_line ------------------------------ *)

\* The next key event of io::stdin().keys() is k.
AtKey(k) == pc = "read_line" /\ pending # <<>> /\ Head(pending) = k

\* A panic inside read_line while handling a key: the process ends.
KeyPanics(kind) ==
    /\ pc' = "panicked"
    /\ panic' = kind
    /\ pending' = Tail(pending)

\* The locals of read_line, as declared at its top.
ReadLineLocals ==
    /\ input' = <<>>
    /\ input_current_index' = 0
    /\ substitutions_index' = <<>>
    /\ should_escape' = FALSE
    /\ escape_position' = USIZE_MAX

\* Key::Char('\n'): drop the escaped character, leave the loop and return
\* the trimmed buffer with the recorded offsets.
KeyEnter ==
    /\ AtKey(Enter)
    /\ IF should_escape /\ escape_position >= Len(input)
       THEN /\ KeyPanics("index_out_of_bounds")
            /\ UNCHANGED <<input, line>>
       ELSE /\ input' = IF should_escape
                        THEN remove(input, escape_position)
                        ELSE input
            /\ line' = trim(input')
            /\ pc' = "returned"
            /\ pending' = Tail(pending)
            /\ UNCHANGED panic
    /\ UNCHANGED <<input_current_index, substitutions_index, should_escape,
                   escape_position, configVars, entry_command, entry_cwd,
                   tokens, line_status, procVars, typed, live>>

\* Key::Backspace.  With the cursor at offset 0 of a non-empty buffer the
\* subtraction input_current_index - 1 overflows: a build with overflow
\* checks panics there, a build without them wraps to usize::MAX and
\* String::remove panics.
KeyBackspace ==
    /\ AtKey("Backspace")
    /\ IF input = <<>>
       THEN /\ pending' = Tail(pending)
            /\ UNCHANGED <<pc, panic, input, input_current_index>>
       ELSE IF input_current_index = 0
       THEN /\ \E kind \in {"arithmetic_overflow", "index_out_of_bounds"} :
                   KeyPanics(kind)
            /\ UNCHANGED <<input, input_current_index>>
       ELSE IF input_current_index - 1 >= Len(input)
       THEN /\ KeyPanics("index_out_of_bounds")
            /\ UNCHANGED <<input, input_current_index>>
       ELSE /\ input' = remove(input, input_current_index - 1)
            /\ input_current_index' =
                   IF Len(input') > 0 /\ input_current_index > 0
                   THEN input_current_index - 1
                   ELSE input_current_index
            /\ pending' = Tail(pending)
            /\ UNCHANGED <<pc, panic>>
    /\ live' = <<>>
    /\ UNCHANGED <<substitutions_index, should_escape, escape_position,
                   configVars, mainVars, procVars, typed>>

\* Key::Char(character) for a character other than '\n'.
KeyChar ==
    /\ pc = "read_line" /\ pending # <<>>
    /\ Head(pending) \notin SpecialKeys \cup {Enter}
    /\ LET character == Head(pending) IN
       IF input_current_index > Len(input)
       THEN /\ KeyPanics("index_out_of_bounds")
            /\ UNCHANGED <<input, input_current_index, substitutions_index,
                           should_escape, escape_position>>
       ELSE /\ input' = insert(input, input_current_index, character)
            /\ input_current_index' = input_current_index + 1
            /\ should_escape' = (should_escape \/ character = "\\")
            /\ escape_position' = IF character = "\\"
                                  THEN Len(input') - 1
                                  ELSE escape_position
            /\ substitutions_index' =
                   IF ~should_escape' /\ character = "$"
                   THEN Append(substitutions_index, Len(input') - 1)
                   ELSE substitutions_index
            /\ pending' = Tail(pending)
            /\ UNCHANGED <<pc, panic>>
    /\ live' = <<>>
    /\ UNCHANGED <<configVars, mainVars, procVars, typed>>

\* The tail of Key::Up and Key::Down: index the history vector at the new
\* position and make the recalled command the buffer.
Recall(position) ==
    /\ history_position' = position
    /\ IF position >= Len(history_vector)
       THEN /\ KeyPanics("index_out_of_bounds")
            /\ input' = <<>>
            /\ UNCHANGED input_current_index
       ELSE /\ input' = history_vector[position + 1].command
            /\ input_current_index' = Len(input')
            /\ pending' = Tail(pending)
            /\ UNCHANGED <<pc, panic>>

\* Key::Up
KeyUp ==
    /\ AtKey("Up")
    /\ Recall(IF history_position > 0
              THEN history_position - 1
              ELSE history_position)
    /\ live' = IF live = <<>> THEN <<input>> ELSE live
    /\ UNCHANGED <<substitutions_index, should_escape, escape_position,
                   history_vector, mainVars, procVars, typed>>

\* Key::Down.  With an empty history vector len() - 1 overflows: a build
\* with overflow checks panics there, a build without them wraps, moves
\* the position to 1 and panics on the index.
KeyDown ==
    /\ AtKey("Down")
    /\ IF Len(history_vector) = 0
       THEN \/ /\ KeyPanics("arithmetic_overflow")
               /\ input' = <<>>
               /\ UNCHANGED <<history_position, input_current_index>>
            \/ Recall(history_position + 1)
       ELSE Recall(IF history_position < Len(history_vector) - 1
                   THEN history_position + 1
                   ELSE history_position)
    /\ live' = IF live = <<>> THEN <<input>> ELSE live
    /\ UNCHANGED <<substitutions_index, should_escape, escape_position,
                   history_vector, mainVars, procVars, typed>>

\* Key::Left
KeyLeft ==
    /\ AtKey("Left")
    /\ input_current_index' =
           IF Len(input) > 0 /\ input_current_index > 0
           THEN input_current_index - 1
           ELSE input_current_index
    /\ pending' = Tail(pending)
    /\ UNCHANGED <<pc, panic, input, substitutions_index, should_escape,
                   escape_position, configVars, mainVars, procVars, typed,
                   live>>

\* Key::Right
KeyRight ==
    /\ AtKey("Right")
    /\ input_current_index' =
           IF Len(input) > 0 /\ input_current_index < Len(input)
           THEN input_current_index + 1
           ELSE input_current_index
    /\ pending' = Tail(pending)
    /\ UNCHANGED <<pc, panic, input, substitutions_index, should_escape,
                   escape_position, configVars, mainVars, procVars, typed,
                   live>>

\* Any other key event: ignored.
KeyOther ==
    /\ AtKey("Other")
    /\ pending' = Tail(pending)
    /\ UNCHANGED <<pc, panic, editorVars, configVars, mainVars, procVars,
                   typed, live>>

\* One key event read and handled by the loop of read_line.
Key ==
    \/ KeyEnter
    \/ KeyBackspace
    \/ KeyChar
    \/ KeyUp
    \/ KeyDown
    \/ KeyLeft
    \/ KeyRight
    \/ KeyOther

(* ----------------- the line editor alone, key by key ------------------ *)

\* The user presses one key (SpecKeys).
Press ==
    /\ pc = "read_line" /\ pending = <<>>
    /\ typed < MaxKeys
    /\ \E k \in EditChars \cup SpecialKeys \cup {Enter} : pending' = <<k>>
    /\ typed' = typed + 1
    /\ UNCHANGED <<pc, panic, editorVars, configVars, mainVars, procVars,
                   live>>

\* read_line has just been entered from the first prompt after init(),
\* with any of the initial history vectors.
InitKeys ==
    /\ pc = "read_line"
    /\ panic = "none"
    /\ pending = <<>>
    /\ input = <<>>
    /\ input_current_index = 0
    /\ substitutions_index = <<>>
    /\ should_escape = FALSE
    /\ escape_position = USIZE_MAX
    /\ history_vector \in InitHistories
    /\ history_position = Len(history_vector)
    /\ entry_command = <<>>
    /\ entry_cwd = <<"/">>
    /\ tokens = <<>>
    /\ line_status = "OK"
    /\ line = <<>>
    /\ env = <<>>
    /\ cwd = <<"/">>
    /\ typed = 0
    /\ live = <<>>

NextKeys == Press \/ Key

SpecKeys == InitKeys /\ [][NextKeys]_vars

(* ----------------------------- parse_line ----------------------------- *)

\* parse_char with only the double quote opening and closing a string.
parse_char_double_quote_only(st, character) ==
    IF character = "\""
    THEN IF ~st.inside_string
         THEN [st EXCEPT !.inside_string = TRUE]
         ELSE [tokens |-> Append(st.tokens, st.current_token),
               current_token |-> <<>>,
               inside_string |-> FALSE]
    ELSE IF IsWhitespace(character) /\ ~st.inside_string
    THEN IF st.current_token # <<>>
         THEN [st EXCEPT !.tokens = Append(st.tokens, st.current_token),
                         !.current_token = <<>>]
         ELSE st
    ELSE [st EXCEPT !.current_token = Append(st.current_token, character)]

\* The body of the loop of parse_line for one character.
parse_char(st, character) ==
    IF character \in {"\"", "'"}
    THEN IF ~st.inside_string
         THEN [st EXCEPT !.inside_string = TRUE]
         ELSE [tokens |-> Append(st.tokens, st.current_token),
               current_token |-> <<>>,
               inside_string |-> FALSE]
    ELSE IF IsWhitespace(character) /\ ~st.inside_string
    THEN IF st.current_token # <<>>
         THEN [st EXCEPT !.tokens = Append(st.tokens, st.current_token),
                         !.current_token = <<>>]
         ELSE st
    ELSE [st EXCEPT !.current_token = Append(st.current_token, character)]

RECURSIVE parse_chars(_, _, _)
\* The loop of parse_line over the characters s[i..].
parse_chars(st, s, i) ==
    IF i > Len(s) THEN st ELSE parse_chars(parse_char(st, s[i]), s, i + 1)

\* parse_line without the push of the token still open at the end of the
\* line.
parse_line_dropping_last(l, status) ==
    LET st == parse_chars([tokens |-> <<>>,
                           current_token |-> <<>>,
                           inside_string |-> (status = "INCOMPLETE")],
                          trim(l), 1)
    IN  IF st.inside_string
        THEN [tokens |-> Append(st.tokens, Append(st.current_token, "\n")),
              line_status |-> "INCOMPLETE"]
        ELSE [tokens |-> st.tokens, line_status |-> "OK"]

\* parse_line(line, &mut line_status): the tokens and the new status.
parse_line(l, status) ==
    LET st == parse_chars([tokens |-> <<>>,
                           current_token |-> <<>>,
                           inside_string |-> (status = "INCOMPLETE")],
                          trim(l), 1)
    IN  IF st.inside_string
        THEN [tokens |-> Append(st.tokens, Append(st.current_token, "\n")),
              line_status |-> "INCOMPLETE"]
        ELSE [tokens |-> IF st.current_token # <<>>
                         THEN Append(st.tokens, st.current_token)
                         ELSE st.tokens,
              line_status |-> "OK"]

(* -------------------- expand_environment_variables -------------------- *)

\* A character that ends a variable name.
IsNameEnd(c) == IsWhitespace(c) \/ c \in {",", "'", "\""}

\* new_line[index..].find(..).unwrap_or_else(|| new_line.len() - index)
end_of_substitution(new_line, index) ==
    LET hits == {j \in 0..(Len(new_line) - index - 1) :
                     IsNameEnd(new_line[index + j + 1])}
    IN  IF hits = {}
        THEN Len(new_line) - index
        ELSE CHOOSE j \in hits : \A k \in hits : j <= k

\* substitutions_index.iter().rev(): the offsets in the order in which the
\* loop of expand_environment_variables takes them.
processing_order(subs) == [i \in 1..Len(subs) |-> subs[Len(subs) + 1 - i]]

RECURSIVE expand_from(_, _, _, _)
\* The loop of expand_environment_variables, from the k-th recorded offset
\* down to the first.  The result is Ok with the new line, Err (env::var
\* failed) or Panic (a slice out of the bounds of new_line).
expand_from(new_line, subs, k, environment) ==
    IF k = 0
    THEN [kind |-> "Ok", line |-> new_line]
    ELSE LET index == subs[k]
             end_index == index + end_of_substitution(new_line, index)
             environment_variable == SubSeq(new_line, index + 2, end_index)
         IN  IF index > Len(new_line) \/ index + 1 > end_index
             THEN [kind |-> "Panic", line |-> new_line]
             ELSE IF environment_variable \notin DOMAIN environment
             THEN [kind |-> "Err", line |-> new_line]
             ELSE expand_from(replace_range(new_line, index, end_index,
                                            environment[environment_variable]),
                              subs, k - 1, environment)

\* expand_environment_variables(line, substitutions_index)
expand_environment_variables(l, subs, environment) ==
    expand_from(l, subs, Len(subs), environment)

(* -------------------------------- main -------------------------------- *)

\* Names of the builtins and of the variables and directories of the model.
B_cd      == <<"c", "d">>
B_history == <<"h", "i", "s", "t", "o", "r", "y">>
B_exit    == <<"e", "x", "i", "t">>
B_export  == <<"e", "x", "p", "o", "r", "t">>
B_unset   == <<"u", "n", "s", "e", "t">>
HOME      == <<"H", "O", "M", "E">>

\* The keys of config.builtins
builtins == {B_cd, B_history, B_exit, B_export, B_unset}

\* The directories of the file system; no other path names a directory.
Dirs == { <<"/">>, <<"/", "t">> }

\* The programs that can be spawned, each with the exit status it ends
\* with (None when a signal ends it); no other name can be spawned.
Programs ==
    (<<"e", "c", "h", "o">> :> Some(0)) @@ (<<"a", "b">> :> Some(2))

\* The files that can be read; no other path can.
Files == { <<"f">> }

\* The scripts the user types at a prompt in Spec, as key events.
Scripts ==
    { <<"Up">>,
      <<"Down">>,
      B_history \o <<Enter>>,
      B_history \o <<" ", "f", Enter>>,
      <<"a", "b", "\\", Enter>>,
      <<"$", "Y", Enter>>,
      <<"e", "c", "h", "o", " ", "\"", "h", "e", "l", "l", "o", Enter>>,
      <<"w", "o", "r", "l", "d", "\"", Enter>>,
      B_export \o <<" ", "E", "=", Enter>>,
      <<"$", "E", Enter>>,
      B_cd \o <<" ", "/", "t", Enter>>,
      B_cd \o <<" ", "/", "n", Enter>>,
      B_unset \o <<" ", "E", Enter>>,
      B_exit \o <<Enter>>,
      <<"a", "$", "Left", "Left", "Other", "Right", "Backspace", "b",
        Enter>>,
      <<" ", " ", "$", "a", Enter>>,
      <<"z", "z", Enter>>,
      <<"\"", Enter>>,
      <<"a", "a", "$", "Backspace", "Backspace", "$", Enter>>,
      <<"a", Enter>> }

\* The user types a line at the prompt (Spec).
Type ==
    /\ pc = "read_line" /\ pending = <<>>
    /\ typed < MaxTyped
    /\ \E script \in Scripts : pending' = script
    /\ typed' = typed + 1
    /\ UNCHANGED <<pc, panic, editorVars, configVars, mainVars, procVars,
                   live>>

\* main: print the prompt and enter read_line.
Prompt ==
    /\ pc = "prompt"
    /\ pc' = "read_line"
    /\ ReadLineLocals
    /\ live' = <<>>
    /\ UNCHANGED <<panic, pending, configVars, mainVars, procVars, typed>>

SkipLine_resetting ==
    /\ pc = "returned"
    /\ Len(line) <= 1
    /\ pc' = "prompt"
    /\ tokens' = <<>>
    /\ line_status' = "OK"
    /\ entry_command' = <<>>
    /\ UNCHANGED <<panic, pending, editorVars, configVars, entry_cwd, line,
                   procVars, typed, live>>

\* main: a line of length 0 or 1 is skipped.
SkipLine ==
    /\ pc = "returned"
    /\ Len(line) <= 1
    /\ pc' = "prompt"
    /\ UNCHANGED <<panic, pending, editorVars, configVars, mainVars,
                   procVars, typed, live>>

\* The result of expanding the returned line.
Expanded == expand_environment_variables(line, substitutions_index, env)

\* main: the line is added to entry.command, then expansion fails and the
\* inner loop continues.
ExpandErr ==
    /\ pc = "returned"
    /\ Len(line) > 1
    /\ Expanded.kind = "Err"
    /\ entry_command' = entry_command \o line \o <<"\n">>
    /\ pc' = "prompt"
    /\ UNCHANGED <<panic, pending, editorVars, configVars, entry_cwd, tokens,
                   line_status, line, procVars, typed, live>>

\* main: the line is added to entry.command, then expansion panics.
ExpandPanic ==
    /\ pc = "returned"
    /\ Len(line) > 1
    /\ Expanded.kind = "Panic"
    /\ entry_command' = entry_command \o line \o <<"\n">>
    /\ pc' = "panicked"
    /\ panic' = "index_out_of_bounds"
    /\ UNCHANGED <<pending, editorVars, configVars, entry_cwd, tokens,
                   line_status, line, procVars, typed, live>>

\* merge with the first new token appended instead of concatenated.
merge_appending(old, current_tokens) == old \o current_tokens

\* main: the tokens of the new line are merged into the accumulated ones.
merge(old, current_tokens) ==
    IF old = <<>>
    THEN current_tokens
    ELSE IF current_tokens # <<>>
    THEN [old EXCEPT ![Len(old)] = old[Len(old)] \o current_tokens[1]]
         \o Tail(current_tokens)
    ELSE old

\* main: the line is expanded and parsed, its tokens are merged, and the
\* inner loop ends when the status is OK.
ParseLine ==
    /\ pc = "returned"
    /\ Len(line) > 1
    /\ Expanded.kind = "Ok"
    /\ LET parsed == parse_line(Expanded.line, line_status) IN
       /\ line' = Expanded.line
       /\ tokens' = merge(tokens, parsed.tokens)
       /\ line_status' = parsed.line_status
       /\ entry_command' =
              IF parsed.line_status = "OK"
              THEN trim_end(entry_command \o line \o <<"\n">>)
              ELSE entry_command \o line \o <<"\n">>
       /\ pc' = IF parsed.line_status = "OK" THEN "execute" ELSE "prompt"
    /\ UNCHANGED <<panic, pending, editorVars, configVars, entry_cwd,
                   procVars, typed, live>>

Record_prepending(exit_code) ==
    /\ history_vector' =
           <<HistoryEntry(entry_command, exit_code, entry_cwd)>>
           \o history_vector
    /\ entry_command' = <<>>
    /\ entry_cwd' = cwd'
    /\ tokens' = <<>>
    /\ line_status' = "OK"
    /\ pc' = "prompt"
    /\ UNCHANGED <<panic, pending, editorVars, history_position, line, typed,
                   live>>

\* main: execute has returned exit_code; the entry is added to the history
\* (add_history_entry) and the outer loop starts a new entry.
Record(exit_code) ==
    /\ history_vector' =
           Append(history_vector,
                  HistoryEntry(entry_command, exit_code, entry_cwd))
    /\ entry_command' = <<>>
    /\ entry_cwd' = cwd'
    /\ tokens' = <<>>
    /\ line_status' = "OK"
    /\ pc' = "prompt"
    /\ UNCHANGED <<panic, pending, editorVars, history_position, line, typed,
                   live>>

\* A builtin panics: the process ends.
BuiltinPanics(kind) ==
    /\ pc' = "panicked"
    /\ panic' = kind
    /\ UNCHANGED <<pending, editorVars, configVars, mainVars, procVars,
                   typed, live>>

\* execute with tokens[0] = name
Executes(name) == pc = "execute" /\ tokens # <<>> /\ tokens[1] = name

\* execute: an empty token list.
ExecuteEmpty ==
    /\ pc = "execute"
    /\ tokens = <<>>
    /\ UNCHANGED procVars
    /\ Record(None)

\* cd with the working directory set to the requested path even when
\* set_current_dir fails.
BuiltinCd_changing_anyway ==
    /\ Executes(B_cd)
    /\ UNCHANGED env
    /\ IF Len(tokens) < 2 /\ HOME \notin DOMAIN env
       THEN cwd' = cwd /\ Record(Some(1))
       ELSE LET directory == IF Len(tokens) < 2 THEN env[HOME] ELSE tokens[2]
            IN  /\ cwd' = directory
                /\ Record(IF directory \in Dirs THEN Some(0) ELSE Some(1))

\* execute: the builtin cd.
BuiltinCd ==
    /\ Executes(B_cd)
    /\ UNCHANGED env
    /\ IF Len(tokens) < 2 /\ HOME \notin DOMAIN env
       THEN cwd' = cwd /\ Record(Some(1))
       ELSE LET directory == IF Len(tokens) < 2 THEN env[HOME] ELSE tokens[2]
            IN  IF directory \in Dirs
                THEN cwd' = directory /\ Record(Some(0))
                ELSE cwd' = cwd /\ Record(Some(1))

\* execute: the builtin history; args[1] is indexed before anything else,
\* then the file is read.
BuiltinHistory ==
    /\ Executes(B_history)
    /\ IF Len(tokens) < 2
       THEN BuiltinPanics("index_out_of_bounds")
       ELSE /\ UNCHANGED procVars
            /\ Record(IF tokens[2] \in Files THEN Some(0) ELSE Some(1))

\* execute: the builtin exit.
BuiltinExit ==
    /\ Executes(B_exit)
    /\ pc' = "exited"
    /\ UNCHANGED <<panic, pending, editorVars, configVars, mainVars,
                   procVars, typed, live>>

\* The offset of the first '=' of s, or Len(s) when it has none.
find_eq(s) ==
    IF "=" \in Chars(s)
    THEN (CHOOSE i \in 1..Len(s) :
              s[i] = "=" /\ \A j \in 1..(i - 1) : s[j] # "=") - 1
    ELSE Len(s)

\* execute: the builtin export.  env::set_var panics on an empty name.
BuiltinExport ==
    /\ Executes(B_export)
    /\ UNCHANGED cwd
    /\ IF Len(tokens) < 2
       THEN env' = env /\ Record(Some(0))
       ELSE LET eq    == find_eq(tokens[2])
                name  == SubSeq(tokens[2], 1, eq)
                value == SubSeq(tokens[2], eq + 2, Len(tokens[2]))
            IN  IF eq = Len(tokens[2])
                THEN env' = env /\ Record(Some(1))
                ELSE IF name = <<>>
                THEN BuiltinPanics("invalid_env_key")
                ELSE env' = (name :> value) @@ env /\ Record(Some(0))

\* execute: the builtin unset.  env::remove_var panics on an empty name and
\* on a name that contains '='.
BuiltinUnset ==
    /\ Executes(B_unset)
    /\ UNCHANGED cwd
    /\ IF Len(tokens) < 2
       THEN env' = env /\ Record(Some(1))
       ELSE IF tokens[2] = <<>> \/ "=" \in Chars(tokens[2])
       THEN BuiltinPanics("invalid_env_key")
       ELSE /\ env' = [n \in DOMAIN env \ {tokens[2]} |-> env[n]]
            /\ Record(Some(0))

\* execute of an external program with every exit code other than 0
\* reported as 1.
ExecuteExternal_flattening ==
    /\ pc = "execute"
    /\ tokens # <<>>
    /\ tokens[1] \notin builtins
    /\ UNCHANGED procVars
    /\ Record(IF tokens[1] \notin DOMAIN Programs THEN None
              ELSE IF Programs[tokens[1]] = Some(0) THEN Some(0)
              ELSE Some(1))

\* execute: an external program; it cannot be spawned (None), or it runs
\* and status.code() is returned.
ExecuteExternal ==
    /\ pc = "execute"
    /\ tokens # <<>>
    /\ tokens[1] \notin builtins
    /\ UNCHANGED procVars
    /\ Record(IF tokens[1] \in DOMAIN Programs
              THEN Programs[tokens[1]]
              ELSE None)

\* The shell after init() with an empty history file, at its first prompt.
Init ==
    /\ pc = "prompt"
    /\ panic = "none"
    /\ pending = <<>>
    /\ input = <<>>
    /\ input_current_index = 0
    /\ substitutions_index = <<>>
    /\ should_escape = FALSE
    /\ escape_position = USIZE_MAX
    /\ history_vector = <<>>
    /\ history_position = Len(history_vector)
    /\ entry_command = <<>>
    /\ entry_cwd = <<"/">>
    /\ tokens = <<>>
    /\ line_status = "OK"
    /\ line = <<>>
    /\ env = (HOME :> <<"/">>)
    /\ cwd = <<"/">>
    /\ typed = 0
    /\ live = <<>>

Next ==
    \/ Type
    \/ Prompt
    \/ KeyEnter
    \/ KeyBackspace
    \/ KeyChar
    \/ KeyUp
    \/ KeyDown
    \/ KeyLeft
    \/ KeyRight
    \/ KeyOther
    \/ SkipLine
    \/ ExpandErr
    \/ ExpandPanic
    \/ ParseLine
    \/ ExecuteEmpty
    \/ BuiltinCd
    \/ BuiltinHistory
    \/ BuiltinExit
    \/ BuiltinExport
    \/ BuiltinUnset
    \/ ExecuteExternal

Spec == Init /\ [][Next]_vars

(* ------------- expand_environment_variables on its own ---------------- *)

\* Longest line given to expand_environment_variables and to parse_line
\* when they are applied on their own.
MaxLineLen == 4

\* All strings over the characters cs of length at most n.
RECURSIVE Strings(_, _)
Strings(cs, n) ==
    IF n = 0
    THEN { <<>> }
    ELSE LET shorter == Strings(cs, n - 1)
         IN  shorter \cup {Append(t, c) : t \in shorter, c \in cs}

\* The characters of the lines given to expand_environment_variables.
ExpandChars == {"a", "$", ",", " "}

\* The environments expand_environment_variables is applied in: each of
\* the names a and a$a is unset or has one of three values.
ExpandEnvs ==
    LET names  == { <<"a">>, <<"a", "$", "a">> }
        values == { <<>>, <<"b">>, <<"b", ",">> }
    IN  UNION { [dom -> values] : dom \in SUBSET names }

RECURSIVE offsets_from(_, _)
\* The offsets of the `$` characters of s[i + 1 ..], in ascending order.
offsets_from(s, i) ==
    IF i >= Len(s)
    THEN <<>>
    ELSE IF s[i + 1] = "$"
    THEN <<i>> \o offsets_from(s, i + 1)
    ELSE offsets_from(s, i + 1)

\* The offsets read_line records for a line typed from left to right
\* without a backslash: those of its `$` characters, in ascending order.
dollar_offsets(s) == offsets_from(s, 0)

\* expand_environment_variables is about to be called on a line whose
\* markers are the offsets of its `$` characters.
InitExpand ==
    /\ pc = "expand"
    /\ panic = "none"
    /\ pending = <<>>
    /\ input = <<>>
    /\ input_current_index = 0
    /\ line \in Strings(ExpandChars, MaxLineLen)
    /\ substitutions_index = dollar_offsets(line)
    /\ should_escape = FALSE
    /\ escape_position = USIZE_MAX
    /\ history_vector = <<>>
    /\ history_position = 0
    /\ entry_command = <<>>
    /\ entry_cwd = <<"/">>
    /\ tokens = <<>>
    /\ line_status = "OK"
    /\ env \in ExpandEnvs
    /\ cwd = <<"/">>
    /\ typed = 0
    /\ live = <<>>

\* The call expand_environment_variables(&line, substitutions_index): line
\* becomes the new line on Ok.
ApplyExpand ==
    /\ pc = "expand"
    /\ pc' = CASE Expanded.kind = "Ok" -> "expanded"
               [] Expanded.kind = "Err" -> "expand_err"
               [] OTHER -> "panicked"
    /\ panic' = IF Expanded.kind = "Panic" THEN "index_out_of_bounds"
                ELSE panic
    /\ line' = IF Expanded.kind = "Ok" THEN Expanded.line ELSE line
    /\ UNCHANGED <<pending, editorVars, configVars, entry_command, entry_cwd,
                   tokens, line_status, procVars, typed, live>>

SpecExpand == InitExpand /\ [][ApplyExpand]_vars

(* ------------------------ parse_line on its own ----------------------- *)

\* The characters of the lines given to parse_line.
ParseChars == {"a", "b", " ", "\n", "\"", "'"}

\* parse_line is about to be called on a line with a carried status.
InitParse ==
    /\ pc = "parse"
    /\ panic = "none"
    /\ pending = <<>>
    /\ input = <<>>
    /\ input_current_index = 0
    /\ line \in Strings(ParseChars, MaxLineLen)
    /\ substitutions_index = <<>>
    /\ should_escape = FALSE
    /\ escape_position = USIZE_MAX
    /\ history_vector = <<>>
    /\ history_position = 0
    /\ entry_command = <<>>
    /\ entry_cwd = <<"/">>
    /\ tokens = <<>>
    /\ line_status \in {"OK", "INCOMPLETE"}
    /\ env = <<>>
    /\ cwd = <<"/">>
    /\ typed = 0
    /\ live = <<>>

\* The call parse_line(&line, &mut line_status): tokens holds the returned
\* tokens and line_status the new status.
ApplyParse ==
    /\ pc = "parse"
    /\ pc' = "parsed"
    /\ tokens' = parse_line(line, line_status).tokens
    /\ line_status' = parse_line(line, line_status).line_status
    /\ UNCHANGED <<panic, pending, editorVars, configVars, entry_command,
                   entry_cwd, line, procVars, typed, live>>

SpecParse == InitParse /\ [][ApplyParse]_vars

(* ------------------------------ claims -------------------------------- *)

\* C1: after every sequence of Char, Backspace, Left, Right, Up and Down
\* key events handled by read_line the cursor lies within the buffer,
\* 0 <= cursor <= len(text).
C1_CursorWithinBuffer ==
    pc = "read_line" =>
        (0 <= input_current_index /\ input_current_index <= Len(input))

\* C2: Backspace never fails; when a character stands immediately before
\* the cursor exactly that character is deleted and the cursor decreases by
\* one, otherwise the text is left unchanged.
C2_BackspaceDeletesBeforeCursor ==
    [][AtKey("Backspace") =>
          /\ pc' # "panicked"
          /\ IF 1 <= input_current_index /\ input_current_index <= Len(input)
             THEN /\ input' = remove(input, input_current_index - 1)
                  /\ input_current_index' = input_current_index - 1
             ELSE input' = input]_vars

\* C3: history navigation is clamped: Up and Down keep the history position
\* in [0, len(history)] and never index the history at or past its length
\* (which would end the process); Up at position 0 keeps position 0; Down
\* at position len(history) keeps the position and the live buffer.
C3_HistoryNavigationClamped ==
    [][(AtKey("Up") \/ AtKey("Down")) =>
          /\ pc' # "panicked"
          /\ history_position' \in 0..Len(history_vector)
          /\ (AtKey("Up") /\ history_position = 0) => history_position' = 0
          /\ (AtKey("Down") /\ history_position = Len(history_vector)) =>
                 (history_position' = history_position /\ input' = input)
      ]_vars

\* C4: no key event and no submitted line makes the shell die: the process
\* never ends by a panic (it ends only by the exit builtin).
C4_NoErrorTerminatesShell == pc # "panicked"

\* C5: every offset read_line returns is the offset, in the returned
\* trimmed line, of a `$` character.
C5_MarkersPointAtDollars ==
    pc = "returned" =>
        \A k \in 1..Len(substitutions_index) :
            /\ substitutions_index[k] < Len(line)
            /\ line[substitutions_index[k] + 1] = "$"

\* C6: a line that Enter ended while an escape was pending is not
\* finalized: main goes back to the prompt with status INCOMPLETE and
\* dispatches nothing.
C6_EscapedEnterContinues ==
    [][(pc = "returned" /\ should_escape) =>
          (pc' = "prompt" /\ line_status' = "INCOMPLETE")]_vars

\* C7: when expansion fails on an unset variable the whole in-progress
\* command is discarded: nothing is dispatched or recorded, and the tokens,
\* the command text of the entry and the status are those of a fresh line.
C7_ExpansionErrorDiscardsCommand ==
    [][(pc = "returned" /\ Len(line) > 1 /\ Expanded.kind = "Err") =>
          /\ pc' = "prompt"
          /\ tokens' = <<>>
          /\ entry_command' = <<>>
          /\ line_status' = "OK"
          /\ UNCHANGED <<history_vector, env, cwd>>]_vars

\* C8: dispatching an empty token list runs nothing and appends no history
\* record.
C8_EmptyDispatchAppendsNothing ==
    [][(pc = "execute" /\ tokens = <<>>) =>
          UNCHANGED <<history_vector, env, cwd>>]_vars

\* C9: after every Char or Backspace key the history position equals
\* len(history), "not browsing".
C9_TypingResetsHistoryPosition ==
    [][(/\ pc = "read_line" /\ pending # <<>>
        /\ Head(pending) \notin {Enter, "Up", "Down", "Left", "Right", "Other"}
        /\ pc' # "panicked") =>
          history_position' = Len(history_vector')]_vars

\* C10: after the user typed a live buffer and pressed Up, a Down key
\* pressed at the last record reaches the upper bound len(history) and
\* brings back the live buffer typed before browsing began.
C10_BrowsingRoundTrip ==
    [][(/\ AtKey("Down")
        /\ live # <<>> /\ live # << <<>> >>
        /\ history_position = Len(history_vector) - 1) =>
          /\ pc' # "panicked"
          /\ history_position' = Len(history_vector)
          /\ input' = live[1]]_vars

\* The end of the name that starts after offset i of the line s: the
\* offset of the next whitespace, comma or quote, or the length of s.
name_end(s, i) ==
    LET ends == {j \in (i + 1)..(Len(s) - 1) : IsNameEnd(s[j + 1])}
    IN  IF ends = {} THEN Len(s)
        ELSE CHOOSE j \in ends : \A k \in ends : j <= k

\* The name of the marker at offset i of the line s.
name_at(s, i) == SubSeq(s, i + 2, name_end(s, i))

RECURSIVE substituted(_, _, _)
\* The line s from offset i on, with each `$NAME` replaced by the value of
\* NAME in the environment e.
substituted(s, i, e) ==
    IF i >= Len(s)
    THEN <<>>
    ELSE IF s[i + 1] = "$"
    THEN e[name_at(s, i)] \o substituted(s, name_end(s, i), e)
    ELSE <<s[i + 1]>> \o substituted(s, i + 1, e)

\* C11: given the offsets of the `$` characters of a line and an
\* environment in which every referenced name (from the marker to the next
\* whitespace, comma, quote or end of the original line) is set, expansion
\* returns the line with each `$NAME` replaced by the value of NAME.
C11_ExpandReplacesEveryName ==
    [][(/\ pc = "expand"
        /\ \A k \in 1..Len(substitutions_index) :
               name_at(line, substitutions_index[k]) \in DOMAIN env) =>
          (pc' = "expanded" /\ line' = substituted(line, 0, env))]_vars

\* The two lines of the quoted string that spans two submitted lines.
EchoHello == <<"e", "c", "h", "o", " ", "\"", "h", "e", "l", "l", "o">>
World     == <<"w", "o", "r", "l", "d", "\"">>

\* C12: when the status carried into a parse is INCOMPLETE the first new
\* token is concatenated onto the last accumulated token and the others
\* are appended; when it is OK the new tokens start the list; and the
\* lines `echo "hello` and `world"` give the tokens echo and hello\nworld
\* with status OK.
C12_CrossLineMerging ==
    [][(pc = "returned" /\ pc' \in {"prompt", "execute"} /\ Len(line) > 1
        /\ Expanded.kind = "Ok") =>
          LET current == parse_line(Expanded.line, line_status).tokens IN
          /\ line_status = "OK" => tokens' = current
          /\ line_status = "INCOMPLETE" =>
                 /\ Len(tokens') = Len(tokens) + Len(current) - 1
                 /\ SubSeq(tokens', 1, Len(tokens) - 1)
                        = SubSeq(tokens, 1, Len(tokens) - 1)
                 /\ tokens'[Len(tokens)] = tokens[Len(tokens)] \o current[1]
                 /\ SubSeq(tokens', Len(tokens) + 1, Len(tokens'))
                        = Tail(current)
          /\ (entry_command = EchoHello \o <<"\n">> /\ line = World) =>
                 /\ line_status' = "OK"
                 /\ tokens' = << <<"e", "c", "h", "o">>,
                                 <<"h", "e", "l", "l", "o", "\n",
                                   "w", "o", "r", "l", "d">> >>]_vars

\* C12 witness: the two-line quoted string has been merged and is about to
\* be dispatched.
C12_Witness ==
    /\ pc = "execute"
    /\ entry_command = EchoHello \o <<"\n">> \o World
    /\ Len(tokens) = 2
    /\ tokens[2] = <<"h", "e", "l", "l", "o", "\n", "w", "o", "r", "l", "d">>

\* The positions of s at which a whitespace-separated word starts.
word_starts(s) ==
    {i \in 1..Len(s) :
         ~IsWhitespace(s[i]) /\ (i = 1 \/ IsWhitespace(s[i - 1]))}

\* The word of s that starts at position i.
word_at(s, i) ==
    LET last == CHOOSE j \in i..Len(s) :
                    /\ \A m \in i..j : ~IsWhitespace(s[m])
                    /\ (j = Len(s) \/ IsWhitespace(s[j + 1]))
    IN  SubSeq(s, i, last)

\* The whitespace-separated words of s, in order.
words(s) ==
    LET starts == word_starts(s)
        nth(k) == CHOOSE i \in starts :
                      Cardinality({j \in starts : j < i}) = k - 1
    IN  [k \in 1..Cardinality(starts) |-> word_at(s, nth(k))]

\* The positions of the quote characters of s.
quotes(s) == {i \in 1..Len(s) : s[i] \in {"\"", "'"}}

\* C13: for a line without quote characters made of k whitespace-separated
\* words, parse_line called with status OK returns exactly those k words
\* in order and sets the status to OK.
C13_WordsRoundTrip ==
    [][(pc = "parse" /\ line_status = "OK" /\ quotes(line) = {}) =>
          (line_status' = "OK" /\ tokens' = words(line))]_vars

\* C13 witness: a line of two words with whitespace between and around
\* them has been parsed into its two words.
C13_Witness ==
    /\ pc = "parsed"
    /\ line = <<" ", "a", "\n", "b">>
    /\ line_status = "OK"
    /\ tokens = << <<"a">>, <<"b">> >>

\* The input of parse_line ends inside a quoted string: the carried status
\* is INCOMPLETE and the number of quote characters is even, or it is OK
\* and the number is odd.
ends_inside_string(s, status) ==
    (status = "INCOMPLETE") # (Cardinality(quotes(s)) % 2 = 1)

\* The text of s after its last quote character (all of s without one).
after_last_quote(s) ==
    LET last == IF quotes(s) = {} THEN 0
                ELSE CHOOSE i \in quotes(s) : \A j \in quotes(s) : j <= i
    IN  SubSeq(s, last + 1, Len(s))

\* t ends with the text u.
ends_with(t, u) ==
    Len(u) <= Len(t) /\ SubSeq(t, Len(t) - Len(u) + 1, Len(t)) = u

\* The number of newline characters of the string s.
newlines(s) == Cardinality({i \in 1..Len(s) : s[i] = "\n"})

RECURSIVE newlines_in(_)
\* The number of newline characters of the tokens ts.
newlines_in(ts) ==
    IF ts = <<>> THEN 0 ELSE newlines(Head(ts)) + newlines_in(Tail(ts))

\* C18: the status parse_line sets depends only on the carried status and
\* the number of quote characters: it is INCOMPLETE exactly when the input
\* ends inside a quoted string, and then the last token is the partly built
\* token (it ends with the text after the last quote) with one newline
\* appended; otherwise it is OK and no newline is appended to any token
\* (the tokens hold no newline that the input does not hold).
C18_StatusFollowsQuotes ==
    [][pc = "parse" =>
          IF ends_inside_string(line, line_status)
          THEN /\ line_status' = "INCOMPLETE"
               /\ tokens' # <<>>
               /\ LET last == tokens'[Len(tokens')]
                      body == SubSeq(last, 1, Len(last) - 1)
                  IN  /\ last # <<>> /\ last[Len(last)] = "\n"
                      /\ ends_with(body, after_last_quote(trim(line)))
               /\ newlines_in(tokens') <= newlines(trim(line)) + 1
          ELSE /\ line_status' = "OK"
               /\ newlines_in(tokens') <= newlines(trim(line))
      ]_vars

\* C18 witness: a line that opens a string with one kind of quote, closes
\* it with the other and opens a second one has been parsed.
C18_Witness ==
    /\ pc = "parsed"
    /\ line = <<"\"", "a", "'", "\"">>
    /\ line_status = "INCOMPLETE"
    /\ tokens = << <<"a">>, <<"\n">> >>

\* The directory the builtin cd is asked to change to, <<>> without one.
cd_target ==
    IF Len(tokens) >= 2 THEN tokens[2]
    ELSE IF HOME \in DOMAIN env THEN env[HOME]
    ELSE <<>>

\* The builtin named by tokens[0] returns Ok.
builtin_succeeds ==
    \/ tokens[1] = B_cd /\ cd_target \in Dirs
    \/ tokens[1] = B_history /\ Len(tokens) >= 2 /\ tokens[2] \in Files
    \/ tokens[1] = B_export
         /\ (Len(tokens) < 2
               \/ ("=" \in Chars(tokens[2]) /\ Head(tokens[2]) # "="))
    \/ tokens[1] = B_unset /\ Len(tokens) >= 2 /\ tokens[2] # <<>>
         /\ "=" \notin Chars(tokens[2])

\* The builtin named by tokens[0] returns Err.
builtin_fails ==
    \/ tokens[1] = B_cd /\ cd_target \notin Dirs
    \/ tokens[1] = B_history /\ Len(tokens) >= 2 /\ tokens[2] \notin Files
    \/ tokens[1] = B_export /\ Len(tokens) >= 2
         /\ "=" \notin Chars(tokens[2])
    \/ tokens[1] = B_unset /\ Len(tokens) < 2

\* The exit code of the record that a step appends to the history.
recorded_code == history_vector'[Len(history_vector')].exit_code

\* C14: dispatch of a non-empty token list returns 0 when the builtin
\* succeeds, 1 when it returns an error, the exit code of the child when
\* the program ran and no exit code when it could not be spawned; in each
\* case the REPL goes on to the next prompt.
C14_DispatchExitCodes ==
    [][(pc = "execute" /\ tokens # <<>>) =>
          LET returned(code) ==
                  /\ pc' = "prompt"
                  /\ Len(history_vector') = Len(history_vector) + 1
                  /\ recorded_code = code
          IN  /\ builtin_succeeds => returned(Some(0))
              /\ builtin_fails => returned(Some(1))
              /\ tokens[1] \in DOMAIN Programs =>
                     returned(Programs[tokens[1]])
              /\ tokens[1] \notin builtins \cup DOMAIN Programs =>
                     returned(None)]_vars

\* C14 witness: a program that ran and ended with a non-zero exit code and
\* a program that could not be spawned have both been recorded.
C14_Witness ==
    /\ pc = "prompt"
    /\ Len(history_vector) = 2
    /\ history_vector[1].command = <<"a", "b">>
    /\ history_vector[1].exit_code = Some(2)
    /\ history_vector[2].command = <<"z", "z">>
    /\ history_vector[2].exit_code = None

\* The command `cd /n`, to a directory that does not exist.
CdMissing == B_cd \o <<" ", "/", "n">>

\* C15: cd to a directory that does not exist returns an error (exit code
\* 1) and leaves the working directory unchanged: the next prompt and the
\* next history record show the working directory of before.
C15_FailedCdKeepsDirectory ==
    [][(pc = "execute" /\ tokens # <<>> /\ tokens[1] = B_cd
        /\ cd_target \notin Dirs) =>
          /\ pc' = "prompt"
          /\ recorded_code = Some(1)
          /\ cwd' = cwd
          /\ entry_cwd' = cwd]_vars

\* C15 witness: after `cd /t` has changed the directory, `cd /n` has
\* failed and the directory is still /t.
C15_Witness ==
    /\ pc = "prompt"
    /\ Len(history_vector) = 2
    /\ history_vector[1].exit_code = Some(0)
    /\ history_vector[2].command = CdMissing
    /\ history_vector[2].exit_code = Some(1)
    /\ cwd = <<"/", "t">>
    /\ entry_cwd = <<"/", "t">>

\* C16: the expander takes the markers of every list the line editor
\* returns in descending offset order.
C16_MarkersTakenDescending ==
    pc = "returned" =>
        LET order == processing_order(substitutions_index) IN
        \A i \in 1..Len(order) : \A j \in 1..Len(order) :
            i < j => order[i] >= order[j]

\* C17: Enter with a pending escape never fails and removes exactly one
\* backslash of the buffer, keeping every other character in order; when
\* the buffer holds no backslash any more it removes nothing.
C17_EnterRemovesTheBackslash ==
    [][(AtKey(Enter) /\ should_escape) =>
          /\ pc' # "panicked"
          /\ IF "\\" \in Chars(input)
             THEN \E i \in 0..(Len(input) - 1) :
                     /\ input[i + 1] = "\\"
                     /\ input' = remove(input, i)
             ELSE input' = input]_vars

\* The exit codes a dispatch can return.
dispatch_codes == {None} \cup {Some(c) : c \in 0..2}

\* C19: the history changes only when a command with status OK has been
\* dispatched and has returned, by appending one record that holds the
\* accumulated command text, the dispatch result and the directory of the
\* entry; the records before it stay as they were; the accumulated text is
\* the accepted lines joined by newlines; and no step of read_line changes
\* the history.
C19_HistoryAppendOnly ==
    [][/\ history_vector' # history_vector =>
              /\ pc = "execute" /\ line_status = "OK" /\ pc' = "prompt"
              /\ \E code \in dispatch_codes :
                     history_vector' =
                         Append(history_vector,
                                HistoryEntry(entry_command, code, entry_cwd))
              /\ entry_command' = <<>>
       /\ (pc = "returned" /\ pc' = "prompt" /\ Len(line) > 1) =>
              entry_command' = entry_command \o line \o <<"\n">>
       /\ (pc = "returned" /\ pc' = "execute") =>
              entry_command' = entry_command \o line
       /\ pc = "read_line" => history_vector' = history_vector]_vars

\* C19 witness: a one-line command and then a two-line command have been
\* recorded, the second after the first.
C19_Witness ==
    /\ pc = "prompt"
    /\ Len(history_vector) = 2
    /\ history_vector[1].command = <<"a", "b">>
    /\ history_vector[2].command = EchoHello \o <<"\n">> \o World
    /\ entry_command = <<>>

\* C20: a returned line of length 0 or 1 is dropped before expansion and
\* parsing: the shell goes back to the prompt with the tokens, the command
\* text of the entry, the status, the history, the environment and the
\* working directory as they were, so nothing is dispatched; a line that is
\* only the closing quote leaves the status INCOMPLETE.
C20_ShortLineDiscarded ==
    [][(pc = "returned" /\ Len(line) <= 1) =>
          /\ pc' = "prompt"
          /\ UNCHANGED <<tokens, entry_command, line_status, history_vector,
                         env, cwd>>]_vars

\* C20 witness: with the string of `echo "hello` open, a line holding only
\* the closing quote has been dropped.
C20_Witness ==
    /\ pc = "prompt"
    /\ line = <<"\"">>
    /\ line_status = "INCOMPLETE"
    /\ entry_command = EchoHello \o <<"\n">>
    /\ Len(tokens) = 2

====
